---- MODULE Spec2Model ----
(***************************************************************************)
(* A model of the graph engine of gantt-data-manager                       *)
(* (src/lib/adjacencyList.ts): the node collection of one AdjacencyList,   *)
(* and the operations addNode, updateNode and removeNode with the helpers  *)
(* they call; and of its schedule builder createRenderMap                  *)
(* (src/lib/renderMap.ts).                                                 *)
(*                                                                         *)
(* A JavaScript Set<string> keeps insertion order, so it is modelled as a  *)
(* sequence without duplicates; `null` is the value Null.  The Map `list`  *)
(* is the function from its keys to its entries (the graph engine and the  *)
(* schedule builder only look entries up by key).  A thrown GraphError is  *)
(* the name of the enum member; a call that returns normally is "ok".      *)
(***************************************************************************)
EXTENDS Integers, Sequences, FiniteSets, TLC

(***************************************************************************)
(* Bounds of the model.                                                    *)
(***************************************************************************)
\* Capacity of one graph, the root included.  The source's value is 10000;
\* the model checks the same code with a capacity that can be reached.
MAX_NODES == 4

\* Longest parents / children array passed to addNode and updateNode.
MaxArgLen == 2

\* Most names the parents and children arrays of one call hold together, in a
\* call with a valid duration and in a call with an invalid one.
MaxRefs == 2
MaxRefsInvalid == 1

(***************************************************************************)
(* Values.                                                                 *)
(***************************************************************************)
\* rootName: one fixed string per process, distinct from every task name.
rootName == "R"

\* `null` for a Set<string> | null or a string[] | null.  It is a sequence
\* so that it can be compared with the sequences that model sets and arrays;
\* "null" is never used as a node name.
Null == <<"null">>

\* `undefined` for an omitted string[] | null argument, whose default applies.
Undefined == <<"undefined">>

\* Color.Color1, the default colour of a new graph.
Color1 == 1

\* `null` for a Date | null.
NoDate == -1

\* GraphError members.
RootChange == "RootChange"
RootRemoval == "RootRemoval"
EntryDuplicate == "EntryDuplicate"
EmptyName == "EmptyName"
ZeroDuration == "ZeroDuration"
NegativeDuration == "NegativeDuration"
MissingEntry == "MissingEntry"
MissingParent == "MissingParent"
MissingChild == "MissingChild"
SelfReference == "SelfReference"
RootReference == "RootReference"
GraphLoop == "GraphLoop"
NodeLimitExceeded == "NodeLimitExceeded"
Ok == "ok"

(***************************************************************************)
(* Inputs of the calls.                                                    *)
(***************************************************************************)
\* Names a caller passes as `name` / `newName`: three task names and the
\* empty string.
TaskNames == {"A", "B", "C"}
NameInputs == TaskNames \cup {""}

\* Names a caller puts in a parents / children array.
RefNames == TaskNames \cup {rootName}

\* Durations a caller passes: positive, or zero or negative.
ValidDurations == {1}
InvalidDurations == {-1, 0}

\* string[] | null arguments: null, [] and every array of at most MaxArgLen
\* names (repetitions included).
ArrayInputs ==
  {Null} \cup UNION {[1..n -> RefNames] : n \in 0..MaxArgLen}

\* The number of names an array argument holds.
Refs(arr) == IF arr = Null \/ arr = Undefined THEN 0 ELSE Len(arr)

\* The (parents, children) arguments, drawn from `arrays`, of a call that
\* names at most n nodes.
ArrayPairs(arrays, n) ==
  {pc \in arrays \X arrays : Refs(pc[1]) + Refs(pc[2]) <= n}

\* The (duration, parents, children) arguments of one addNode call.  An
\* omitted array is the same call as a null one (the defaults are null).
AddArgInputs ==
  {<<d, pc[1], pc[2]>> :
     d \in ValidDurations, pc \in ArrayPairs(ArrayInputs, MaxRefs)}
    \cup {<<d, pc[1], pc[2]>> :
            d \in InvalidDurations, pc \in ArrayPairs(ArrayInputs, MaxRefsInvalid)}

\* The (duration, parents, children) arguments of one updateNode call; its
\* arrays may be omitted.
UpdateArgInputs ==
  {<<d, pc[1], pc[2]>> :
     d \in ValidDurations,
     pc \in ArrayPairs(ArrayInputs \cup {Undefined}, MaxRefs)}
    \cup {<<d, pc[1], pc[2]>> :
            d \in InvalidDurations, pc \in ArrayPairs(ArrayInputs, MaxRefsInvalid)}

(***************************************************************************)
(* JavaScript Set and Map primitives on their models.                      *)
(***************************************************************************)
\* x ?? [] for a nullable set or array.
OrEmpty(s) == IF s = Null THEN <<>> ELSE s

\* The elements of a sequence, as a TLA+ set.
Elems(s) == {s[i] : i \in 1..Len(s)}

\* Set.prototype.has
SetHas(s, x) == x \in Elems(s)

\* Set.prototype.add: a new element goes last, an old one keeps its place.
SetAdd(s, x) == IF SetHas(s, x) THEN s ELSE Append(s, x)

\* Set.prototype.delete
SetDelete(s, x) == SelectSeq(s, LAMBDA y : y # x)

\* new Set(array): the array without repetitions, first occurrences kept.
RECURSIVE NewSet(_)
NewSet(arr) ==
  IF arr = <<>> THEN <<>>
  ELSE SetAdd(NewSet(SubSeq(arr, 1, Len(arr) - 1)), arr[Len(arr)])

\* new Map()
EmptyMap == [n \in {} |-> 0]

\* The keys of the collection, and Map.prototype.size.
Keys(l) == DOMAIN l
Size(l) == Cardinality(DOMAIN l)

\* Map.prototype.has on the node collection.
Has(l, n) == n \in DOMAIN l

\* Map.prototype.get (n is a key of l).
Get(l, n) == l[n]

\* Map.prototype.set
MapSet(l, n, e) == [x \in DOMAIN l \cup {n} |-> IF x = n THEN e ELSE l[x]]

\* Map.prototype.delete
MapDelete(l, n) == [x \in DOMAIN l \ {n} |-> l[x]]

\* Parent and child sets of a stored node, null read as empty.
ParentsOf(l, n) == Elems(OrEmpty(Get(l, n).parents))
ChildrenOf(l, n) == Elems(OrEmpty(Get(l, n).children))

(***************************************************************************)
(* ensureRootBinding, bindChildNode, unbindChildNode.                      *)
(***************************************************************************)
\* ensureRootBinding that re-creates a missing root edge but never drops one.
ensureRootBindingNeverDrops(l, nodeName) ==
  IF nodeName = rootName THEN l
  ELSE IF ~Has(l, nodeName) \/ ~Has(l, rootName) THEN l
  ELSE IF Get(l, nodeName).parents # Null /\ Len(Get(l, nodeName).parents) = 0
  THEN [[l EXCEPT ![nodeName].parents = SetAdd(@, rootName)]
          EXCEPT ![rootName].children = SetAdd(OrEmpty(@), nodeName)]
  ELSE l

ensureRootBinding(l, nodeName) ==
  IF nodeName = rootName THEN l
  ELSE IF ~Has(l, nodeName) \/ ~Has(l, rootName) THEN l
  ELSE
    LET many == Get(l, nodeName).parents # Null
                /\ Len(Get(l, nodeName).parents) > 1
        \* node.parents.delete(root); rootNode.children?.delete(nodeName)
        l1 == IF many
              THEN [[l EXCEPT ![nodeName].parents = SetDelete(@, rootName)]
                      EXCEPT ![rootName].children =
                               IF @ = Null THEN Null ELSE SetDelete(@, nodeName)]
              ELSE l
        none == Get(l1, nodeName).parents # Null
                /\ Len(Get(l1, nodeName).parents) = 0
        \* node.parents.add(root); rootNode.children.add(nodeName)
        l2 == IF none
              THEN [[l1 EXCEPT ![nodeName].parents = SetAdd(@, rootName)]
                       EXCEPT ![rootName].children =
                                SetAdd(OrEmpty(@), nodeName)]
              ELSE l1
    IN l2

bindChildNode(l, childNodeName, nodeName) ==
  IF ~Has(l, nodeName) \/ ~Has(l, childNodeName) THEN l
  ELSE
    LET l1 == [l EXCEPT ![nodeName].children =
                          SetAdd(OrEmpty(@), childNodeName)]
        l2 == [l1 EXCEPT ![childNodeName].parents =
                           SetAdd(OrEmpty(@), nodeName)]
    IN ensureRootBinding(l2, childNodeName)

\* unbindChildNode that removes the child from the node's child set but
\* leaves the node in the child's parent set.
unbindChildNodeOneSided(l, childNodeName, nodeName) ==
  IF ~Has(l, nodeName) \/ ~Has(l, childNodeName) THEN l
  ELSE
    LET l1 == [l EXCEPT ![nodeName].children =
                          IF @ = Null THEN Null
                          ELSE IF SetDelete(@, childNodeName) = <<>> THEN Null
                          ELSE SetDelete(@, childNodeName)]
    IN IF nodeName # rootName THEN ensureRootBinding(l1, childNodeName) ELSE l1

unbindChildNode(l, childNodeName, nodeName) ==
  IF ~Has(l, nodeName) \/ ~Has(l, childNodeName) THEN l
  ELSE
    LET \* node.children?.delete(child); an emptied set becomes null
        l1 == [l EXCEPT ![nodeName].children =
                          IF @ = Null THEN Null
                          ELSE IF SetDelete(@, childNodeName) = <<>> THEN Null
                          ELSE SetDelete(@, childNodeName)]
        \* childNode.parents?.delete(nodeName)
        l2 == [l1 EXCEPT ![childNodeName].parents =
                           IF @ = Null THEN Null ELSE SetDelete(@, nodeName)]
    IN IF nodeName # rootName THEN ensureRootBinding(l2, childNodeName) ELSE l2

(***************************************************************************)
(* findLoop and runCommonValidation.                                       *)
(***************************************************************************)
\* The children of `current` that are not yet visited, in set order: what one
\* turn of the while loop pushes on dfsStack.
Unvisited(l, current, visited) ==
  IF ~Has(l, current) THEN <<>>
  ELSE SelectSeq(OrEmpty(Get(l, current).children), LAMBDA c : c \notin visited)

\* The loop with the test made on the children it pushes instead of on the node
\* it pops: the proposed children themselves are never tested.
RECURSIVE FindLoopRunTestsPushed(_, _, _, _)
FindLoopRunTestsPushed(l, dfsStack, visited, parentSet) ==
  IF dfsStack = <<>> THEN FALSE
  ELSE
    LET current == dfsStack[Len(dfsStack)]
        rest == SubSeq(dfsStack, 1, Len(dfsStack) - 1)
        pushed == Unvisited(l, current, visited \cup {current})
    IN IF Elems(pushed) \cap parentSet # {} THEN TRUE
       ELSE FindLoopRunTestsPushed(l, rest \o pushed, visited \cup {current},
                                   parentSet)

\* The while loop of findLoop: pop the last element, answer true when it is a
\* proposed parent, else mark it visited and push its unvisited children.
RECURSIVE FindLoopRun(_, _, _, _)
FindLoopRun(l, dfsStack, visited, parentSet) ==
  IF dfsStack = <<>> THEN FALSE
  ELSE
    LET current == dfsStack[Len(dfsStack)]
        rest == SubSeq(dfsStack, 1, Len(dfsStack) - 1)
    IN IF current \in parentSet THEN TRUE
       ELSE FindLoopRun(l, rest \o Unvisited(l, current, visited \cup {current}),
                        visited \cup {current}, parentSet)

\* findLoop that only looks at the proposed children themselves and never
\* follows a stored child edge.
findLoopNoDescent(l, parents, children) ==
  IF parents = Null \/ children = Null THEN FALSE
  ELSE Elems(children) \cap Elems(parents) # {}

findLoop(l, parents, children) ==
  IF parents = Null \/ children = Null THEN FALSE
  ELSE FindLoopRun(l, children, {}, Elems(parents))

\* The two checks on a parent made in the other order.
RECURSIVE ValidateParentsSelfFirst(_, _, _)
ValidateParentsSelfFirst(l, name, parents) ==
  IF parents = <<>> THEN Ok
  ELSE IF name = Head(parents) THEN SelfReference
  ELSE IF ~Has(l, Head(parents)) THEN MissingParent
  ELSE ValidateParentsSelfFirst(l, name, Tail(parents))

\* parents.forEach of runCommonValidation: the error of the first parent, in
\* array order, that fails one of the two checks made on it.
RECURSIVE ValidateParents(_, _, _)
ValidateParents(l, name, parents) ==
  IF parents = <<>> THEN Ok
  ELSE IF ~Has(l, Head(parents)) THEN MissingParent
  ELSE IF name = Head(parents) THEN SelfReference
  ELSE ValidateParents(l, name, Tail(parents))

\* The checks on the children without the one that refuses the root.
RECURSIVE ValidateChildrenNoRootCheck(_, _, _)
ValidateChildrenNoRootCheck(l, name, children) ==
  IF children = <<>> THEN Ok
  ELSE IF ~Has(l, Head(children)) THEN MissingChild
  ELSE IF name = Head(children) THEN SelfReference
  ELSE ValidateChildrenNoRootCheck(l, name, Tail(children))

\* children.forEach of runCommonValidation.
RECURSIVE ValidateChildren(_, _, _)
ValidateChildren(l, name, children) ==
  IF children = <<>> THEN Ok
  ELSE IF ~Has(l, Head(children)) THEN MissingChild
  ELSE IF name = Head(children) THEN SelfReference
  ELSE IF Head(children) = rootName THEN RootReference
  ELSE ValidateChildren(l, name, Tail(children))

\* The GraphError thrown by runCommonValidation, or Ok.
runCommonValidation(l, name, duration, parents, children) ==
  IF name = "" THEN EmptyName
  ELSE IF duration = 0 /\ name # rootName THEN ZeroDuration
  ELSE IF duration < 0 THEN NegativeDuration
  ELSE IF ValidateParents(l, name, OrEmpty(parents)) # Ok
       THEN ValidateParents(l, name, OrEmpty(parents))
  ELSE IF ValidateChildren(l, name, OrEmpty(children)) # Ok
       THEN ValidateChildren(l, name, OrEmpty(children))
  ELSE IF findLoop(l, parents, children) THEN GraphLoop
  ELSE Ok

(***************************************************************************)
(* addNode, removeNode, updateNode as functions of the collection: each    *)
(* yields the collection after the call and the error thrown (or Ok).      *)
(***************************************************************************)
\* parents.forEach(parent => bindChildNode(name, parent))
RECURSIVE BindParents(_, _, _)
BindParents(l, name, parents) ==
  IF parents = <<>> THEN l
  ELSE BindParents(bindChildNode(l, name, Head(parents)), name, Tail(parents))

\* children.forEach(child => bindChildNode(child, name))
RECURSIVE BindChildren(_, _, _)
BindChildren(l, name, children) ==
  IF children = <<>> THEN l
  ELSE BindChildren(bindChildNode(l, Head(children), name), name, Tail(children))

\* The insertion without the default that binds a node declared without
\* parents to the root.
InsertNoRootDefault(l, name, duration, parents, children, color, start) ==
  LET entry == [name |-> name,
                duration |-> duration,
                parents |-> IF parents = Null THEN Null ELSE NewSet(parents),
                children |-> IF children = Null THEN Null ELSE NewSet(children),
                color |-> color,
                start |-> start]
      l1 == MapSet(l, name, entry)
      l2 == BindParents(l1, name, OrEmpty(parents))
  IN BindChildren(l2, name, OrEmpty(children))

\* The entry addNode stores and the bindings it makes, once its checks passed.
Insert(l, name, duration, parents, children, color, start) ==
  LET ps == IF parents = Null /\ name # rootName THEN <<rootName>> ELSE parents
      entry == [name |-> name,
                duration |-> duration,
                parents |-> IF ps = Null THEN Null ELSE NewSet(ps),
                children |-> IF children = Null THEN Null ELSE NewSet(children),
                color |-> color,
                start |-> start]
      l1 == MapSet(l, name, entry)
      l2 == BindParents(l1, name, OrEmpty(ps))
  IN BindChildren(l2, name, OrEmpty(children))

\* The capacity test compared with `>`: one node too many gets in.
AtCapacityOffByOne(l) == Size(l) > MAX_NODES

\* this.list.size >= AdjacencyList.MAX_NODES, the first test of addNode.
AtCapacity(l) == Size(l) >= MAX_NODES

\* addNode that stores the entry before it validates the arguments, and
\* leaves it stored when validation throws.
addNodeStoreFirst(l, name, duration, parents, children, color, start, validate) ==
  IF AtCapacity(l) THEN [list |-> l, error |-> NodeLimitExceeded]
  ELSE IF Has(l, name) THEN [list |-> l, error |-> EntryDuplicate]
  ELSE IF validate /\ runCommonValidation(l, name, duration, parents, children) # Ok
       THEN [list |-> MapSet(l, name,
                             [name |-> name, duration |-> duration,
                              parents |-> IF parents = Null THEN Null
                                          ELSE NewSet(parents),
                              children |-> IF children = Null THEN Null
                                           ELSE NewSet(children),
                              color |-> color, start |-> start]),
             error |-> runCommonValidation(l, name, duration, parents, children)]
  ELSE [list |-> Insert(l, name, duration, parents, children, color, start),
        error |-> Ok]

addNode(l, name, duration, parents, children, color, start, validate) ==
  IF AtCapacity(l) THEN [list |-> l, error |-> NodeLimitExceeded]
  ELSE IF Has(l, name) THEN [list |-> l, error |-> EntryDuplicate]
  ELSE IF validate /\ runCommonValidation(l, name, duration, parents, children) # Ok
       THEN [list |-> l,
             error |-> runCommonValidation(l, name, duration, parents, children)]
  ELSE [list |-> Insert(l, name, duration, parents, children, color, start),
        error |-> Ok]

\* parents.forEach(parent => unbindChildNode(name, parent))
RECURSIVE UnbindParents(_, _, _)
UnbindParents(l, name, parents) ==
  IF parents = <<>> THEN l
  ELSE UnbindParents(unbindChildNode(l, name, Head(parents)), name, Tail(parents))

\* children.forEach that unbinds the children and never binds them to the
\* former parents, as if every removal were part of an update.
RECURSIVE RelinkChildrenNever(_, _, _, _, _)
RelinkChildrenNever(l, name, parents, children, isUpdate) ==
  IF children = <<>> THEN l
  ELSE RelinkChildrenNever(unbindChildNode(l, Head(children), name),
                           name, parents, Tail(children), isUpdate)

\* children.forEach of removeNode: unbind the child and, unless the removal is
\* part of an update, bind it to every former parent of the removed node.
RECURSIVE RelinkChildren(_, _, _, _, _)
RelinkChildren(l, name, parents, children, isUpdate) ==
  IF children = <<>> THEN l
  ELSE
    LET l1 == unbindChildNode(l, Head(children), name)
        l2 == IF isUpdate THEN l1 ELSE BindParents(l1, Head(children), parents)
    IN RelinkChildren(l2, name, parents, Tail(children), isUpdate)

\* ensureRootBinding run on every node of `names`.
RECURSIVE EnsureRootBindings(_, _)
EnsureRootBindings(l, names) ==
  IF names = {} THEN l
  ELSE LET n == CHOOSE x \in names : TRUE
       IN EnsureRootBindings(ensureRootBinding(l, n), names \ {n})

\* removeNode that ends by running ensureRootBinding on every node left.
removeNodeSweeps(l, name, isUpdate) ==
  IF name = rootName THEN [list |-> l, error |-> RootRemoval]
  ELSE IF ~Has(l, name) THEN [list |-> l, error |-> MissingEntry]
  ELSE
    LET parents == OrEmpty(Get(l, name).parents)
        children == OrEmpty(Get(l, name).children)
        l1 == UnbindParents(l, name, parents)
        l2 == RelinkChildren(l1, name, parents, children, isUpdate)
        l3 == MapDelete(l2, name)
        l4 == IF Has(l3, rootName) /\ Get(l3, rootName).children # Null
              THEN [l3 EXCEPT ![rootName].children = SetDelete(@, name)]
              ELSE l3
    IN [list |-> EnsureRootBindings(l4, Keys(l4)), error |-> Ok]

removeNode(l, name, isUpdate) ==
  IF name = rootName THEN [list |-> l, error |-> RootRemoval]
  ELSE IF ~Has(l, name) THEN [list |-> l, error |-> MissingEntry]
  ELSE
    LET parents == OrEmpty(Get(l, name).parents)
        children == OrEmpty(Get(l, name).children)
        l1 == UnbindParents(l, name, parents)
        l2 == RelinkChildren(l1, name, parents, children, isUpdate)
        l3 == MapDelete(l2, name)
        \* rootNode.children.delete(name) when rootNode.children is a set
        l4 == IF Has(l3, rootName) /\ Get(l3, rootName).children # Null
              THEN [l3 EXCEPT ![rootName].children = SetDelete(@, name)]
              ELSE l3
    IN [list |-> l4, error |-> Ok]

\* The default of an omitted parents / children argument of updateNode:
\* Array.from(this.list.get(name)?.parents ?? []), and the same for children.
DefaultParents(l, name, parents) ==
  IF parents # Undefined THEN parents
  ELSE IF Has(l, name) THEN OrEmpty(Get(l, name).parents) ELSE <<>>

DefaultChildren(l, name, children) ==
  IF children # Undefined THEN children
  ELSE IF Has(l, name) THEN OrEmpty(Get(l, name).children) ELSE <<>>

\* updateNode whose internal removal is a genuine one (isUpdate = false): the
\* children of the node are re-linked to its former parents.
UpdateBodyRelinks(l, name, newName, duration, parents, children, color, start) ==
  IF name = rootName THEN [list |-> l, error |-> RootChange]
  ELSE IF Has(l, newName) /\ newName # name THEN [list |-> l, error |-> EntryDuplicate]
  ELSE IF ~Has(l, name) THEN [list |-> l, error |-> MissingEntry]
  ELSE IF runCommonValidation(l, name, duration, parents, children) # Ok
       THEN [list |-> l,
             error |-> runCommonValidation(l, name, duration, parents, children)]
  ELSE
    LET ps == IF parents # Null /\ Len(parents) = 0 THEN Null ELSE parents
        cs == IF children # Null /\ Len(children) = 0 THEN Null ELSE children
        removed == removeNode(l, name, FALSE)
    IN IF removed.error # Ok THEN removed
       ELSE addNode(removed.list, newName, duration, ps, cs, color, start, FALSE)

\* updateNode that looks the node up before it tests the new name.
UpdateBodyMissingFirst(l, name, newName, duration, parents, children, color, start) ==
  IF name = rootName THEN [list |-> l, error |-> RootChange]
  ELSE IF ~Has(l, name) THEN [list |-> l, error |-> MissingEntry]
  ELSE IF Has(l, newName) /\ newName # name THEN [list |-> l, error |-> EntryDuplicate]
  ELSE IF runCommonValidation(l, name, duration, parents, children) # Ok
       THEN [list |-> l,
             error |-> runCommonValidation(l, name, duration, parents, children)]
  ELSE
    LET ps == IF parents # Null /\ Len(parents) = 0 THEN Null ELSE parents
        cs == IF children # Null /\ Len(children) = 0 THEN Null ELSE children
        removed == removeNode(l, name, TRUE)
    IN IF removed.error # Ok THEN removed
       ELSE addNode(removed.list, newName, duration, ps, cs, color, start, FALSE)

\* updateNode that inserts the new entry before it removes the old one.
UpdateBodyInsertFirst(l, name, newName, duration, parents, children, color, start) ==
  IF name = rootName THEN [list |-> l, error |-> RootChange]
  ELSE IF Has(l, newName) /\ newName # name THEN [list |-> l, error |-> EntryDuplicate]
  ELSE IF ~Has(l, name) THEN [list |-> l, error |-> MissingEntry]
  ELSE IF runCommonValidation(l, name, duration, parents, children) # Ok
       THEN [list |-> l,
             error |-> runCommonValidation(l, name, duration, parents, children)]
  ELSE
    LET ps == IF parents # Null /\ Len(parents) = 0 THEN Null ELSE parents
        cs == IF children # Null /\ Len(children) = 0 THEN Null ELSE children
        added == addNode(l, newName, duration, ps, cs, color, start, FALSE)
    IN IF added.error # Ok THEN added
       ELSE removeNode(added.list, name, TRUE)

\* The body of updateNode, its parameters resolved.
UpdateBody(l, name, newName, duration, parents, children, color, start) ==
  IF name = rootName THEN [list |-> l, error |-> RootChange]
  ELSE IF Has(l, newName) /\ newName # name THEN [list |-> l, error |-> EntryDuplicate]
  ELSE IF ~Has(l, name) THEN [list |-> l, error |-> MissingEntry]
  ELSE IF runCommonValidation(l, name, duration, parents, children) # Ok
       THEN [list |-> l,
             error |-> runCommonValidation(l, name, duration, parents, children)]
  ELSE
    LET ps == IF parents # Null /\ Len(parents) = 0 THEN Null ELSE parents
        cs == IF children # Null /\ Len(children) = 0 THEN Null ELSE children
        removed == removeNode(l, name, TRUE)
    IN IF removed.error # Ok THEN removed
       ELSE addNode(removed.list, newName, duration, ps, cs, color, start, FALSE)

updateNode(l, name, newName, duration, parents, children, color, start) ==
  UpdateBody(l, name, newName, duration,
             DefaultParents(l, name, parents), DefaultChildren(l, name, children),
             color, start)

(***************************************************************************)
(* Dates.  A Date is the whole number of days from 2026-01-01 (day 0) to   *)
(* it, in local time: the schedule builder adds whole days to dates, reads *)
(* the day of the month and compares instants.                             *)
(***************************************************************************)
\* The first days of December 2025 and of the months of 2026.
MonthStarts == <<-31, 0, 31, 59, 90, 120, 151, 181, 212, 243, 273, 304, 334>>

\* The first day of the month a date from December 2025 on falls in.
MonthStart(t) ==
  CHOOSE s \in Elems(MonthStarts) :
    s <= t /\ \A u \in Elems(MonthStarts) : u <= t => u <= s

\* Date.prototype.getDate: the day of the month, from 1.
getDate(t) == t - MonthStart(t) + 1

\* setDate that takes the days of the month to count from 0.
setDateFromZero(t, n) == MonthStart(t) + n

\* Date.prototype.setDate: day n of the month of t; an n past the end of the
\* month runs on into the following months.
setDate(t, n) == MonthStart(t) + n - 1

\* new Date(0), the instant a reduce over the parents starts from: 1970-01-01.
Epoch == -20454

\* Math.max
Max(a, b) == IF a >= b THEN a ELSE b

(***************************************************************************)
(* src/lib/renderMap.ts: createGanttElement, sortGanttElements and          *)
(* Array.prototype.sort.                                                   *)
(***************************************************************************)
createGanttElement(name, start, end, parents, children, color, overlappingStart) ==
  [name |-> name, start |-> start, end |-> end, parents |-> parents,
   children |-> children, color |-> color, overlappingStart |-> overlappingStart]

\* The comparator that puts the elements with a child set first.
sortGanttElementsLeavesLast(a, b) ==
  IF a.children # Null /\ b.children = Null THEN -1
  ELSE IF b.children # Null /\ a.children = Null THEN 1
  ELSE IF a.name = b.name THEN 0
  ELSE IF getDate(a.end) - getDate(b.end) > 0 THEN 1
  ELSE -1

\* a.end === b.end compares two Date objects by identity.  Every element gets
\* an end of its own (new Date), so the two are one object only when a and b
\* are one element.
sortGanttElements(a, b) ==
  IF a.children # Null /\ b.children = Null THEN 1
  ELSE IF b.children # Null /\ a.children = Null THEN -1
  ELSE IF a.name = b.name THEN 0
  ELSE IF getDate(a.end) - getDate(b.end) > 0 THEN 1
  ELSE -1

\* The sequence in reverse order.
Reverse(arr) == [i \in 1..Len(arr) |-> arr[Len(arr) + 1 - i]]

\* Array.prototype.sort as V8 runs it on an array shorter than 64: the run
\* the array starts with is found (RunEnd is its last position), reversed when
\* it descends, and the other elements are inserted one by one at the place a
\* binary search gives.
RECURSIVE RunEnd(_, _, _)
RunEnd(arr, i, isDescending) ==
  IF i > Len(arr) THEN i - 1
  ELSE IF isDescending /\ sortGanttElements(arr[i], arr[i - 1]) >= 0 THEN i - 1
  ELSE IF ~isDescending /\ sortGanttElements(arr[i], arr[i - 1]) < 0 THEN i - 1
  ELSE RunEnd(arr, i + 1, isDescending)

\* The place of pivot among arr[left .. right - 1], which are in order.
RECURSIVE BinarySearch(_, _, _, _)
BinarySearch(arr, pivot, left, right) ==
  IF left >= right THEN left
  ELSE LET mid == left + ((right - left) \div 2)
       IN IF sortGanttElements(pivot, arr[mid]) < 0
          THEN BinarySearch(arr, pivot, left, mid)
          ELSE BinarySearch(arr, pivot, mid + 1, right)

\* arr[1 .. start - 1] is in order; insert arr[start], arr[start + 1], ...
RECURSIVE BinaryInsertionSort(_, _)
BinaryInsertionSort(arr, start) ==
  IF start > Len(arr) THEN arr
  ELSE LET pivot == arr[start]
           pos == BinarySearch(arr, pivot, 1, start)
       IN BinaryInsertionSort(
            SubSeq(arr, 1, pos - 1) \o <<pivot>> \o SubSeq(arr, pos, start - 1)
              \o SubSeq(arr, start + 1, Len(arr)),
            start + 1)

\* currentProcessedElements.sort(sortGanttElements)
ArraySort(arr) ==
  IF Len(arr) < 2 THEN arr
  ELSE LET isDescending == sortGanttElements(arr[2], arr[1]) < 0
           e == RunEnd(arr, 3, isDescending)
           run == SubSeq(arr, 1, e)
       IN BinaryInsertionSort(
            (IF isDescending THEN Reverse(run) ELSE run)
              \o SubSeq(arr, e + 1, Len(arr)),
            e + 1)

(***************************************************************************)
(* createRenderMap.  renderMap, a Map whose insertion order is part of the *)
(* result, is the sequence of its elements in that order; pendingMap is    *)
(* the function from its keys to their counters.                           *)
(***************************************************************************)
\* renderMap.has, renderMap.get (name is a key), renderMap.set: a new key goes
\* last, an old one keeps its place.
RenderHas(renderMap, name) ==
  \E i \in 1..Len(renderMap) : renderMap[i].name = name

RenderGet(renderMap, name) ==
  renderMap[CHOOSE i \in 1..Len(renderMap) : renderMap[i].name = name]

\* renderMap.set that puts a new key first.
RenderSetPrepends(renderMap, element) ==
  IF RenderHas(renderMap, element.name)
  THEN [i \in 1..Len(renderMap) |->
          IF renderMap[i].name = element.name THEN element ELSE renderMap[i]]
  ELSE <<element>> \o renderMap

RenderSet(renderMap, element) ==
  IF RenderHas(renderMap, element.name)
  THEN [i \in 1..Len(renderMap) |->
          IF renderMap[i].name = element.name THEN element ELSE renderMap[i]]
  ELSE Append(renderMap, element)

\* The reduce that takes the last parent's end instead of the latest one.
RECURSIVE ReduceParentsLastEnd(_, _, _, _)
ReduceParentsLastEnd(renderMap, parents, max, projectStart) ==
  IF parents = <<>> THEN max
  ELSE ReduceParentsLastEnd(
         renderMap, Tail(parents),
         IF ~RenderHas(renderMap, Head(parents)) THEN projectStart
         ELSE RenderGet(renderMap, Head(parents)).end,
         projectStart)

\* The reduce that takes the earliest of the parents' ends.
RECURSIVE ReduceParentsEarliestEnd(_, _, _, _)
ReduceParentsEarliestEnd(renderMap, parents, max, projectStart) ==
  IF parents = <<>> THEN max
  ELSE ReduceParentsEarliestEnd(
         renderMap, Tail(parents),
         IF ~RenderHas(renderMap, Head(parents)) THEN projectStart
         ELSE IF max = Epoch \/ RenderGet(renderMap, Head(parents)).end < max
         THEN RenderGet(renderMap, Head(parents)).end
         ELSE max,
         projectStart)

\* Array.from(childNodeParents).reduce(..., 0) with `max` the accumulator: a
\* parent that has no element yet makes the accumulator the project start,
\* any other raises it to its end.
RECURSIVE ReduceParents(_, _, _, _)
ReduceParents(renderMap, parents, max, projectStart) ==
  IF parents = <<>> THEN max
  ELSE ReduceParents(
         renderMap, Tail(parents),
         IF ~RenderHas(renderMap, Head(parents)) THEN projectStart
         ELSE Max(max, RenderGet(renderMap, Head(parents)).end),
         projectStart)

\* The element of a ready child whose start hint, when there is one, always
\* is its start, and is never reported as overlapping.
ReadyElementHintWins(renderMap, root, projectStart, currentNode, childNode) ==
  LET computed == IF currentNode.name = root THEN projectStart
                  ELSE ReduceParents(renderMap, OrEmpty(childNode.parents),
                                     Epoch, projectStart)
      start == IF childNode.start # NoDate THEN childNode.start ELSE computed
      end == setDate(start, getDate(start) + childNode.duration)
  IN createGanttElement(childNode.name, start, end, childNode.parents,
                        childNode.children, childNode.color, NoDate)

\* The element made for a child that is ready, reached from currentNode.
ReadyElement(renderMap, root, projectStart, currentNode, childNode) ==
  LET computed == IF currentNode.name = root THEN projectStart
                  ELSE ReduceParents(renderMap, OrEmpty(childNode.parents),
                                     Epoch, projectStart)
      hinted == childNode.start # NoDate
      isStartOverlapping == hinted /\ ~(childNode.start >= computed)
      start == IF hinted /\ childNode.start >= computed THEN childNode.start
               ELSE computed
      end == setDate(start, getDate(start) + childNode.duration)
  IN createGanttElement(childNode.name, start, end, childNode.parents,
                        childNode.children, childNode.color,
                        IF isStartOverlapping THEN childNode.start ELSE NoDate)

\* The ready test that is true of every child, whatever its pending count.
RECURSIVE VisitChildrenAlwaysReady(_, _, _, _, _, _, _)
VisitChildrenAlwaysReady(adjList, root, projectStart, currentNode, children, renderMap, acc) ==
  IF children = <<>> THEN acc
  ELSE
    LET child == Head(children)
        childNode == Get(adjList, child)
        next == [acc EXCEPT !.processed =
                   Append(@, ReadyElement(renderMap, root, projectStart,
                                          currentNode, childNode))]
    IN VisitChildrenAlwaysReady(adjList, root, projectStart, currentNode,
                                Tail(children), renderMap,
                                IF Has(adjList, child) THEN next ELSE acc)

\* currentNode.children.forEach: `children` are those still to visit, `acc`
\* holds pendingMap and currentProcessedElements.
RECURSIVE VisitChildren(_, _, _, _, _, _, _)
VisitChildren(adjList, root, projectStart, currentNode, children, renderMap, acc) ==
  IF children = <<>> THEN acc
  ELSE
    LET child == Head(children)
        childNode == Get(adjList, child)
        size == Len(OrEmpty(childNode.parents))
        pending == acc.pendingMap
        next ==
          IF size = 1 \/ (child \in DOMAIN pending /\ pending[child] = 1)
          THEN [acc EXCEPT !.processed =
                  Append(@, ReadyElement(renderMap, root, projectStart,
                                         currentNode, childNode))]
          ELSE IF child \in DOMAIN pending
          THEN [acc EXCEPT !.pendingMap = [pending EXCEPT ![child] = @ - 1]]
          ELSE [acc EXCEPT !.pendingMap =
                  [n \in DOMAIN pending \cup {child} |->
                     IF n = child THEN size - 1 ELSE pending[n]]]
    IN VisitChildren(adjList, root, projectStart, currentNode, Tail(children),
                     renderMap,
                     IF Has(adjList, child) THEN next ELSE acc)

\* currentProcessedElements.forEach: push the elements that have children,
\* record every element.
RECURSIVE RecordElements(_, _, _)
RecordElements(elements, dfsStack, renderMap) ==
  IF elements = <<>> THEN [dfsStack |-> dfsStack, renderMap |-> renderMap]
  ELSE LET element == Head(elements)
       IN RecordElements(
            Tail(elements),
            IF element.children # Null /\ Len(element.children) > 0
            THEN Append(dfsStack, element.name) ELSE dfsStack,
            RenderSet(renderMap, element))

\* The while loop: one turn pops a name, visits the children of its node,
\* sorts the elements made and records them.  A popped "" is falsy and names
\* no node.  `turns` keeps, for every turn so far, the name popped, renderMap
\* as the turn found it and currentProcessedElements after the sort; the loop
\* itself never reads it.
RECURSIVE RenderLoop(_, _, _, _, _, _, _)
RenderLoop(adjList, root, projectStart, dfsStack, renderMap, pendingMap, turns) ==
  IF dfsStack = <<>> THEN [renderMap |-> renderMap, turns |-> turns]
  ELSE
    LET currentNodeName == dfsStack[Len(dfsStack)]
        rest == SubSeq(dfsStack, 1, Len(dfsStack) - 1)
        found == currentNodeName # "" /\ Has(adjList, currentNodeName)
        visited ==
          IF found /\ Get(adjList, currentNodeName).children # Null
          THEN VisitChildren(adjList, root, projectStart,
                             Get(adjList, currentNodeName),
                             Get(adjList, currentNodeName).children, renderMap,
                             [pendingMap |-> pendingMap, processed |-> <<>>])
          ELSE [pendingMap |-> pendingMap, processed |-> <<>>]
        sorted == ArraySort(visited.processed)
        recorded == RecordElements(sorted, rest, renderMap)
    IN RenderLoop(adjList, root, projectStart, recorded.dfsStack,
                  recorded.renderMap, visited.pendingMap,
                  Append(turns, [popped |-> currentNodeName,
                                 before |-> renderMap,
                                 batch |-> sorted]))

\* createRenderMap that moves the start hint of a node it found overlapping
\* to the computed start, in the collection itself.
createRenderMapWritesStart(adjList, root, projectStart, initialNodeName) ==
  LET run == RenderLoop(adjList, root, projectStart, <<initialNodeName>>,
                        <<>>, EmptyMap, <<>>)
      renderMap == run.renderMap
      Moved(n) == /\ RenderHas(renderMap, n)
                  /\ RenderGet(renderMap, n).overlappingStart # NoDate
  IN [renderMap |-> renderMap,
      turns |-> run.turns,
      adjList |-> [n \in DOMAIN adjList |->
                     IF Moved(n)
                     THEN [adjList[n] EXCEPT !.start = RenderGet(renderMap, n).start]
                     ELSE adjList[n]],
      projectStart |-> projectStart]

\* createRenderMap that takes the project start itself, not a copy of it, as
\* the start of a child of the root: the hint such a child is moved to is
\* written into the project start.
createRenderMapSharesProjectStart(adjList, root, projectStart, initialNodeName) ==
  LET run == RenderLoop(adjList, root, projectStart, <<initialNodeName>>,
                        <<>>, EmptyMap, <<>>)
      renderMap == run.renderMap
      moved == {i \in 1..Len(renderMap) :
                  /\ renderMap[i].parents = <<root>>
                  /\ renderMap[i].start # projectStart}
  IN [renderMap |-> renderMap,
      turns |-> run.turns,
      adjList |-> adjList,
      projectStart |-> IF moved = {} THEN projectStart
                       ELSE renderMap[CHOOSE i \in moved : TRUE].start]

\* createRenderMap(adjList, rootName, projectStart, initialNodeName): the map
\* it returns and the turns its loop took, with the collection and the
\* project start as the call leaves them (it is handed both by reference and
\* writes to neither: every date it changes is a copy it made).
createRenderMap(adjList, root, projectStart, initialNodeName) ==
  RenderLoop(adjList, root, projectStart, <<initialNodeName>>, <<>>, EmptyMap,
             <<>>)
    @@ [adjList |-> adjList, projectStart |-> projectStart]

(***************************************************************************)
(* The state machine: a single caller makes one synchronous call at a time *)
(* on one graph.  A call runs to its end in one step; `call` and `result`  *)
(* keep what was called and what it did until the caller goes on.          *)
(***************************************************************************)
VARIABLES
  list,    \* AdjacencyList.list: the Map of entries
  call,    \* the call that has just run, with its arguments (NoCall if none)
  result   \* what that call did: Ok, or the GraphError it threw

vars == <<list, call, result>>

\* No call has run since the caller last went on.
NoCall == [op |-> "none", name |-> "", newName |-> "", duration |-> 0,
           parents |-> Null, children |-> Null]

\* The constructor: list = new Map(), then addNode() stores the root with
\* duration 0 and neither parents nor children.
Init ==
  /\ list = addNode(EmptyMap, rootName, 0, Null, Null, Color1, NoDate, TRUE).list
  /\ call = NoCall
  /\ result = Ok

\* addNode(name, duration, parents, children) by a caller (validate = true).
AddNode(name, duration, parents, children) ==
  \E r \in {addNode(list, name, duration, parents, children, Color1, NoDate, TRUE)} :
     /\ list' = r.list
     /\ result' = r.error
     /\ call' = [op |-> "addNode", name |-> name, newName |-> name,
                 duration |-> duration, parents |-> parents, children |-> children]

\* updateNode(name, newName, duration, parents, children).
UpdateNode(name, newName, duration, parents, children) ==
  \E r \in {updateNode(list, name, newName, duration, parents, children,
                      Color1, NoDate)} :
     /\ list' = r.list
     /\ result' = r.error
     /\ call' = [op |-> "updateNode", name |-> name, newName |-> newName,
                 duration |-> duration, parents |-> parents, children |-> children]

\* removeNode(name) by a caller (isUpdate = false).
RemoveNode(name) ==
  \E r \in {removeNode(list, name, FALSE)} :
     /\ list' = r.list
     /\ result' = r.error
     /\ call' = [op |-> "removeNode", name |-> name, newName |-> name,
                 duration |-> 0, parents |-> Null, children |-> Null]

\* The caller has seen the outcome and goes on to its next call.
Return ==
  /\ call # NoCall
  /\ call' = NoCall
  /\ result' = Ok
  /\ UNCHANGED list

\* The caller is between two calls.
Idle == call = NoCall

Next ==
  \/ /\ Idle
     /\ \E name \in NameInputs, a \in AddArgInputs :
          AddNode(name, a[1], a[2], a[3])
  \/ /\ Idle
     /\ \E name \in NameInputs \cup {rootName}, newName \in NameInputs,
           a \in UpdateArgInputs :
          UpdateNode(name, newName, a[1], a[2], a[3])
  \/ /\ Idle
     /\ \E name \in NameInputs \cup {rootName} : RemoveNode(name)
  \/ Return

Spec == Init /\ [][Next]_vars

(***************************************************************************)
(* A second state machine on the same graph: the caller adds tasks with    *)
(* durations, colours and start hints of their own, updates a task with    *)
(* every optional argument omitted, removes tasks and builds the schedule. *)
(***************************************************************************)
\* Color.Color2, a colour that is not the default one.
Color2 == 2

\* this.defaultColor: Color.Color1 from the constructor on (setDefaultColor
\* is not among the calls made).
defaultColor == Color1

\* this.startDate, the initialStartDate given to the constructor: 2026-01-01
\* (setStartDate is not among the calls made).
startDate == 0

\* The durations, start hints (none, 2025-12-29, 2026-01-01, 2026-01-30) and
\* colours of the tasks added; the second colour comes with one duration and
\* no hint.  The first hint is before the start of the project; a task hinted
\* at 2026-01-30 ends in February.
TaskDurations == {3, 5}
StartHints == {NoDate, -3, 0, 29}
TaskAttrInputs ==
  {<<d, Color1, h>> : d \in TaskDurations, h \in StartHints}
    \cup {<<3, Color2, NoDate>>}

\* The parents of the tasks added: null, one task, or two different tasks.
TaskParentInputs ==
  {Null} \cup {<<p>> : p \in TaskNames}
         \cup {<<pq[1], pq[2]>> : pq \in {x \in TaskNames \X TaskNames : x[1] # x[2]}}

\* The defaults of the newName, duration and start parameters of updateNode.
DefaultNewName(name) == name
DefaultDuration(l, name) == IF Has(l, name) THEN Get(l, name).duration ELSE 0
DefaultStart(l, name) == IF Has(l, name) THEN Get(l, name).start ELSE NoDate

\* addNode(name, duration, parents, null, color, start) on a graph that has
\* room.
AddTask(name, duration, parents, color, start) ==
  /\ ~AtCapacity(list)
  /\ \E r \in {addNode(list, name, duration, parents, Null, color, start, TRUE)} :
     /\ list' = r.list
     /\ result' = r.error
     /\ call' = [op |-> "addNode", name |-> name, newName |-> name,
                 duration |-> duration, parents |-> parents, children |-> Null,
                 color |-> color, start |-> start, omitted |-> FALSE]

\* updateNode(name): every optional argument takes its default.
UpdateOmitted(name) ==
  \E r \in {updateNode(list, name, DefaultNewName(name),
                      DefaultDuration(list, name), Undefined, Undefined,
                      defaultColor, DefaultStart(list, name))} :
     /\ list' = r.list
     /\ result' = r.error
     /\ call' = [op |-> "updateNode", name |-> name,
                 newName |-> DefaultNewName(name),
                 duration |-> DefaultDuration(list, name),
                 parents |-> Undefined, children |-> Undefined,
                 color |-> defaultColor, start |-> DefaultStart(list, name),
                 omitted |-> TRUE]

\* generateRenderMap(graph): createRenderMap on the collection, from the root,
\* with the graph's start date; `result` is the map returned.
GenerateRenderMap ==
  \E r \in {createRenderMap(list, rootName, startDate, rootName)} :
     /\ list' = r.adjList
     /\ result' = r.renderMap
     /\ call' = [op |-> "generateRenderMap", name |-> rootName,
                 newName |-> rootName, duration |-> 0, parents |-> Null,
                 children |-> Null, color |-> defaultColor, start |-> r.projectStart,
                 omitted |-> FALSE]

\* createRenderMap(list, rootName, startDate, initialNodeName) with the name
\* of a task as the node to start from; `result` is the map returned.
CreateRenderMap(initialNodeName) ==
  \E r \in {createRenderMap(list, rootName, startDate, initialNodeName)} :
     /\ list' = r.adjList
     /\ result' = r.renderMap
     /\ call' = [op |-> "createRenderMap", name |-> initialNodeName,
                 newName |-> initialNodeName, duration |-> 0, parents |-> Null,
                 children |-> Null, color |-> defaultColor, start |-> r.projectStart,
                 omitted |-> FALSE]

\* The call that has just run built the schedule.
IsRender(c) == c.op = "generateRenderMap"

\* The call that has just run built the schedule below a task.
IsRenderFrom(c) == c.op = "createRenderMap"

\* The schedule may be built again right after it was built.
NextTasks ==
  \/ /\ Idle
     /\ \E name \in TaskNames, a \in TaskAttrInputs, parents \in TaskParentInputs :
          AddTask(name, a[1], parents, a[2], a[3])
  \/ /\ Idle
     /\ \E name \in TaskNames : UpdateOmitted(name)
  \/ /\ Idle
     /\ \E name \in TaskNames : RemoveNode(name)
  \/ /\ Idle \/ IsRender(call)
     /\ GenerateRenderMap
  \/ /\ Idle
     /\ \E initialNodeName \in TaskNames : CreateRenderMap(initialNodeName)
  \/ Return

SpecTasks == Init /\ [][NextTasks]_vars

(***************************************************************************)
(* src/lib/modules/kmpSearch.ts.  A string is the sequence of its UTF-16   *)
(* code units, which is what .length counts and what [i] reads; a code     *)
(* unit is denoted by a one-letter string or by its code point.            *)
(***************************************************************************)
\* Longest pattern and longest text of a search.
MaxPatternLen == 3
MaxTextLen == 4

\* The code units of the patterns and texts: two small letters, a capital
\* letter, and the capital I with a dot above.
SearchUnits == {"a", "b", "A", "U+0130"}

\* Every string of at most n of these code units.
Strings(n) == UNION {[1..k -> SearchUnits] : k \in 0..n}

\* String.prototype.toLowerCase on one code unit: the capital letters in use
\* become small ones, U+0130 becomes the two code units U+0069 ("i") U+0307,
\* and every other code unit in use is kept.
LowerCaseOf(unit) ==
  IF unit = "A" THEN <<"a">>
  ELSE IF unit = "B" THEN <<"b">>
  ELSE IF unit = "R" THEN <<"r">>
  ELSE IF unit = "U+0130" THEN <<"i", "U+0307">>
  ELSE <<unit>>

\* String.prototype.toLowerCase
RECURSIVE toLowerCase(_)
toLowerCase(str) ==
  IF str = <<>> THEN <<>>
  ELSE LowerCaseOf(Head(str)) \o toLowerCase(Tail(str))

\* The while loop of buildLspArray at position i: len falls back along lsp
\* until pattern[i] = pattern[len] or len = 0.  (JavaScript counts positions
\* from 0: its pattern[i] is the element i + 1 of the sequence.)
RECURSIVE LspFallBack(_, _, _, _)
LspFallBack(pattern, lsp, i, len) ==
  IF len > 0 /\ pattern[i + 1] # pattern[len + 1]
  THEN LspFallBack(pattern, lsp, i, lsp[len])
  ELSE len

\* The for loop of buildLspArray from position i on.
RECURSIVE LspFrom(_, _, _, _)
LspFrom(pattern, lsp, i, len) ==
  IF i >= Len(pattern) THEN lsp
  ELSE LET fallen == LspFallBack(pattern, lsp, i, len)
           next == IF pattern[i + 1] = pattern[fallen + 1] THEN fallen + 1
                   ELSE fallen
       IN LspFrom(pattern, Append(lsp, next), i + 1, next)

buildLspArray(pattern) == LspFrom(pattern, <<0>>, 1, 0)

\* The while loop of getMaxLsp.
RECURSIVE SearchLoop(_, _, _, _, _, _)
SearchLoop(lowerText, lowerPattern, lsp, maxLsp, textIndex, patternIndex) ==
  IF textIndex >= Len(lowerText) THEN maxLsp
  ELSE IF lowerText[textIndex + 1] = lowerPattern[patternIndex + 1]
  THEN IF patternIndex + 1 = Len(lowerPattern) THEN Len(lowerPattern)
       ELSE SearchLoop(lowerText, lowerPattern, lsp,
                       Max(maxLsp, patternIndex + 1),
                       textIndex + 1, patternIndex + 1)
  ELSE IF patternIndex # 0
  THEN SearchLoop(lowerText, lowerPattern, lsp, maxLsp, textIndex,
                  lsp[patternIndex])
  ELSE SearchLoop(lowerText, lowerPattern, lsp, maxLsp, textIndex + 1, 0)

getMaxLsp(pattern, text) ==
  IF Len(pattern) = 0 \/ Len(text) = 0 THEN 0
  ELSE IF Len(pattern) > Len(text) THEN 0
  ELSE SearchLoop(toLowerCase(text), toLowerCase(pattern),
                  buildLspArray(toLowerCase(pattern)), 0, 0, 0)

(***************************************************************************)
(* A third state machine: the caller asks for the relevance of a pattern   *)
(* to a text.                                                              *)
(***************************************************************************)
\* getMaxLsp(pattern, text); `result` is the number returned.
GetMaxLsp(pattern, text) ==
  /\ call' = [op |-> "getMaxLsp", pattern |-> pattern, text |-> text]
  /\ result' = getMaxLsp(pattern, text)
  /\ UNCHANGED list

\* The call that has just run is a search.
IsSearch(c) == c.op = "getMaxLsp"

NextSearch ==
  \/ /\ Idle
     /\ \E pattern \in Strings(MaxPatternLen), text \in Strings(MaxTextLen) :
          GetMaxLsp(pattern, text)
  \/ Return

SpecSearch == Init /\ [][NextSearch]_vars

(***************************************************************************)
(* src/lib/modules/inputSecurity.ts (validateInput) and the search of the  *)
(* facade, getRelevantTaskNameList.                                        *)
(***************************************************************************)
\* config.maxLength, 100 in the source.
maxLength == 2

\* Longest pattern given to the search.
MaxFindLen == 3

\* The code units of the patterns: two letters of the task names in either
\* case, the small letter of the root name, a blank, a character that
\* escapeHtml replaces and a control character (U+0007).
PatternUnits == {"a", "B", "r", " ", "<", "U+0007"}
Patterns == UNION {[1..k -> PatternUnits] : k \in 0..MaxFindLen}

\* The names of the tasks of the graph that is searched.
FindNames == {"ab", "Ba", "&lt;"}

\* The code units of a name of the graph.
CodeUnits(name) ==
  IF name = "" THEN <<>>
  ELSE IF name = "ab" THEN <<"a", "b">>
  ELSE IF name = "Ba" THEN <<"B", "a">>
  ELSE IF name = "&lt;" THEN <<"&", "l", "t", ";">>
  ELSE <<name>>

\* String.prototype.trim: the blanks at both ends go.
RECURSIVE trimStart(_)
trimStart(str) ==
  IF str # <<>> /\ Head(str) = " " THEN trimStart(Tail(str)) ELSE str

trim(str) == Reverse(trimStart(Reverse(trimStart(str))))

\* HTML_ESCAPES, for one code unit.
HtmlEscapeOf(unit) ==
  IF unit = "&" THEN <<"&", "a", "m", "p", ";">>
  ELSE IF unit = "<" THEN <<"&", "l", "t", ";">>
  ELSE IF unit = ">" THEN <<"&", "g", "t", ";">>
  ELSE IF unit = "\"" THEN <<"&", "q", "u", "o", "t", ";">>
  ELSE IF unit = "'" THEN <<"&", "#", "x", "2", "7", ";">>
  ELSE IF unit = "/" THEN <<"&", "#", "x", "2", "F", ";">>
  ELSE <<unit>>

RECURSIVE escapeHtml(_)
escapeHtml(input) ==
  IF input = <<>> THEN <<>>
  ELSE HtmlEscapeOf(Head(input)) \o escapeHtml(Tail(input))

\* CONTROL_CHARS, of which the patterns have U+0007.
IsControlChar(unit) == unit = "U+0007"

\* sanitized.replace(CONTROL_CHARS, '')
RemoveControlChars(str) == SelectSeq(str, LAMBDA unit : ~IsControlChar(unit))

\* validateInput(input, {maxLength, allowHtml: false}) on a string: trim,
\* validateConstraints (empty strings are allowed), escapeHtml, control
\* characters removed.  `error` says that it threw.
validateInput(input) ==
  IF Len(trim(input)) > maxLength THEN [error |-> TRUE, value |-> <<>>]
  ELSE [error |-> FALSE, value |-> RemoveControlChars(escapeHtml(trim(input)))]

\* getRelevantTaskNameList that leaves out the test on the root name.
getRelevantTaskNameListWithRoot(l, pattern) ==
  IF validateInput(pattern).error THEN [thrown |-> TRUE, returned |-> {}]
  ELSE [thrown |-> FALSE,
        returned |-> {taskName \in Keys(l) :
                        getMaxLsp(validateInput(pattern).value, CodeUnits(taskName))
                          = Len(validateInput(pattern).value)}]

\* getRelevantTaskNameList(pattern, graph) on the collection of the graph:
\* whether it threw and, if not, the names it pushed.  The array returned is
\* kept as the set of its elements: the keys of a Map are distinct, and the
\* order of the array is the insertion order of the Map, which the collection
\* of this model does not keep.
getRelevantTaskNameList(l, pattern) ==
  IF validateInput(pattern).error THEN [thrown |-> TRUE, returned |-> {}]
  ELSE [thrown |-> FALSE,
        returned |-> {taskName \in Keys(l) :
                        /\ getMaxLsp(validateInput(pattern).value, CodeUnits(taskName))
                             = Len(validateInput(pattern).value)
                        /\ taskName # rootName}]

(***************************************************************************)
(* A fourth state machine: the caller adds and removes tasks under the     *)
(* root and searches the graph for a pattern.                              *)
(***************************************************************************)
\* getRelevantTaskNameList(pattern, graph); `result` is what it did.
GetRelevantTaskNameList(pattern) ==
  /\ call' = [op |-> "getRelevantTaskNameList", pattern |-> pattern]
  /\ result' = getRelevantTaskNameList(list, pattern)
  /\ UNCHANGED list

\* The call that has just run is a search of the graph.
IsFind(c) == c.op = "getRelevantTaskNameList"

NextFind ==
  \/ /\ Idle
     /\ \E name \in FindNames : AddTask(name, 3, Null, Color1, NoDate)
  \/ /\ Idle
     /\ \E name \in FindNames : RemoveNode(name)
  \/ /\ Idle
     /\ \E pattern \in Patterns : GetRelevantTaskNameList(pattern)
  \/ Return

SpecFind == Init /\ [][NextFind]_vars

(***************************************************************************)
(* Vocabulary of the properties.                                           *)
(***************************************************************************)
\* The calls that go through runCommonValidation.
IsAdd(c) == c.op = "addNode"
IsUpdate(c) == c.op = "updateNode"
IsRemove(c) == c.op = "removeNode"

\* The names an array argument holds (none when it is null or omitted).
Declared(arr) == IF arr = Undefined THEN {} ELSE Elems(OrEmpty(arr))

\* The checks addNode and updateNode make before the common validation all
\* pass: the graph has room and the name is new (addNode); the node is not the
\* root, exists, and its new name is not another node's (updateNode).
PassesPreconditions(l, c) ==
  \/ IsAdd(c) /\ Size(l) < MAX_NODES /\ ~Has(l, c.name)
  \/ /\ IsUpdate(c)
     /\ c.name # rootName
     /\ Has(l, c.name)
     /\ ~(Has(l, c.newName) /\ c.newName # c.name)

\* The call breaks none of the rules on the duration and the declared parents.
DurationParentsValid(l, c) ==
  /\ c.duration > 0
  /\ \A p \in Declared(c.parents) : Has(l, p) /\ p # c.name

\* The call breaks none of the rules on the name, the duration and the
\* declared parents.
NameDurationParentsValid(l, c) ==
  /\ c.name # ""
  /\ c.newName # ""
  /\ DurationParentsValid(l, c)

\* Every declared child exists and is not the node itself.
ChildrenExistNotSelf(l, c) ==
  \A ch \in Declared(c.children) : Has(l, ch) /\ ch # c.name

\* The nodes reached from the nodes of `frontier` along child edges
\* (the nodes of `frontier` included), `seen` being those already collected.
RECURSIVE ReachFrom(_, _, _)
ReachFrom(l, frontier, seen) ==
  IF frontier \subseteq seen THEN seen
  ELSE ReachFrom(l,
                 UNION {IF Has(l, n) THEN ChildrenOf(l, n) ELSE {} : n \in frontier},
                 seen \cup frontier)

\* The proper descendants of n: what a walk of at least one child edge reaches.
Descendants(l, n) == ReachFrom(l, ChildrenOf(l, n), {})

\* No directed cycle among the child edges.
Acyclic(l) == \A n \in Keys(l) : n \notin Descendants(l, n)

(***************************************************************************)
(* The properties of the graph "after any sequence of calls" are stated of *)
(* the states in which the caller is between two calls (Idle).  Return     *)
(* keeps `list`, so the graph left by every call is the graph of such a    *)
(* state.                                                                  *)
(***************************************************************************)

(***************************************************************************)
(* C1.  After any sequence of addNode, updateNode and removeNode calls     *)
(* with any arguments (parents and children each null, an empty list or a  *)
(* non-empty list), every non-root node of the collection has at least one *)
(* parent and the root has no parent.                                      *)
(***************************************************************************)
C1_EveryNodeHasParent ==
  Idle =>
    \A n \in Keys(list) :
      IF n = rootName THEN ParentsOf(list, n) = {}
      ELSE ParentsOf(list, n) # {}

(***************************************************************************)
(* C2.  After any sequence of addNode, updateNode and removeNode calls,    *)
(* the directed graph formed by the child edges of all nodes contains no   *)
(* directed cycle.                                                         *)
(***************************************************************************)
C2_NoCycle == Idle => Acyclic(list)

\* A change was refused with GraphLoop although no proposed child is itself a
\* proposed parent: findLoop had to follow stored child edges to find the loop.
C2_Witness ==
  /\ result = GraphLoop
  /\ Declared(call.parents) \cap Declared(call.children) = {}
  /\ Acyclic(list)

(***************************************************************************)
(* C3.  In every reachable state, parent and child edges mirror each other *)
(* and never dangle: B is in A's child set if and only if A is in B's      *)
(* parent set, and every name in a parent or child set is a node of the    *)
(* collection.                                                             *)
(***************************************************************************)
C3_EdgesMirrored ==
  Idle =>
    \A a \in Keys(list) :
      /\ ChildrenOf(list, a) \subseteq Keys(list)
      /\ ParentsOf(list, a) \subseteq Keys(list)
      /\ \A b \in ChildrenOf(list, a) : a \in ParentsOf(list, b)
      /\ \A b \in ParentsOf(list, a) : a \in ChildrenOf(list, b)

\* A node has just been renamed by updateNode and sits, under its new name,
\* between a non-root parent and a child; its old name is gone.
C3_Witness ==
  /\ IsUpdate(call)
  /\ call.newName # call.name
  /\ result = Ok
  /\ ~Has(list, call.name)
  /\ Has(list, call.newName)
  /\ ChildrenOf(list, call.newName) # {}
  /\ ParentsOf(list, call.newName) \ {rootName} # {}

(***************************************************************************)
(* C4.  The node count (root included) never exceeds the capacity; an      *)
(* addNode issued when the count equals the capacity fails with            *)
(* NodeLimitExceeded, whatever its arguments (so before the duplicate      *)
(* check and the validation), and leaves the graph unchanged.              *)
(***************************************************************************)
C4_Capacity ==
  /\ [](Size(list) <= MAX_NODES)
  /\ [][ (IsAdd(call') /\ Size(list) = MAX_NODES)
           => (result' = NodeLimitExceeded /\ list' = list) ]_vars

\* An addNode was refused on a full graph although its name was new and its
\* arguments valid.
C4_Witness ==
  /\ IsAdd(call)
  /\ result = NodeLimitExceeded
  /\ Size(list) = MAX_NODES
  /\ ~Has(list, call.name)
  /\ call.name # ""
  /\ call.duration > 0

(***************************************************************************)
(* C5.  The root is permanent and protected: in every reachable state the  *)
(* root exists and is in no node's child set; removeNode(root) fails with  *)
(* RootRemoval and updateNode(root, ...) with RootChange; an addNode or    *)
(* updateNode that declares the root as a child fails, and with            *)
(* RootReference when it breaks no rule checked before that one; each of   *)
(* these calls leaves the graph unchanged.                                 *)
(***************************************************************************)
C5_RootProtected ==
  /\ [](Idle => /\ Has(list, rootName)
                /\ \A n \in Keys(list) : rootName \notin ChildrenOf(list, n))
  /\ [][
      /\ (IsRemove(call') /\ call'.name = rootName)
           => (result' = RootRemoval /\ list' = list)
      /\ (IsUpdate(call') /\ call'.name = rootName)
           => (result' = RootChange /\ list' = list)
      /\ ((IsAdd(call') \/ IsUpdate(call')) /\ rootName \in Declared(call'.children))
           => /\ result' # Ok
              /\ list' = list
              /\ (/\ PassesPreconditions(list, call')
                  /\ NameDurationParentsValid(list, call')
                  /\ ChildrenExistNotSelf(list, call'))
                   => result' = RootReference ]_vars

\* An updateNode of an existing node declared the root among its children and
\* was refused with RootReference.
C5_Witness ==
  /\ IsUpdate(call)
  /\ Has(list, call.name)
  /\ rootName \in Declared(call.children)
  /\ result = RootReference

(***************************************************************************)
(* C6.  addNode is all-or-nothing: whenever addNode fails, with whatever   *)
(* error, the node collection and every node's parent and child sets are   *)
(* what they were before the call.                                         *)
(***************************************************************************)
C6_AddAllOrNothing ==
  [][ (IsAdd(call') /\ result' # Ok) => list' = list ]_vars

\* An addNode got as far as the last check of the validation and failed there.
C6_Witness ==
  /\ IsAdd(call)
  /\ result = GraphLoop

(***************************************************************************)
(* C7.  Given an existing edge A->B, an updateNode on A that puts B among  *)
(* A's parents and leaves A's children at their current value (omitted, or *)
(* passed as they are), the call being valid otherwise, fails with         *)
(* GraphLoop and leaves the graph unchanged.                               *)
(***************************************************************************)
C7_CycleRejected ==
  [][ \A b \in Keys(list) :
        ( /\ IsUpdate(call')
          /\ PassesPreconditions(list, call')
          /\ NameDurationParentsValid(list, call')
          /\ b \in ChildrenOf(list, call'.name)
          /\ b \in Declared(call'.parents)
          /\ \/ call'.children = Undefined
             \/ /\ call'.children # Null
                /\ Declared(call'.children) = ChildrenOf(list, call'.name) )
        => (result' = GraphLoop /\ list' = list) ]_vars

\* A child of the root that has a child of its own was updated with its root
\* parent kept, its child added as a second parent and its children omitted;
\* the update was refused with GraphLoop.
C7_Witness ==
  /\ IsUpdate(call)
  /\ result = GraphLoop
  /\ Has(list, call.name)
  /\ call.children = Undefined
  /\ call.parents # Null
  /\ Declared(call.parents) = ParentsOf(list, call.name) \cup ChildrenOf(list, call.name)
  /\ ParentsOf(list, call.name) = {rootName}
  /\ Cardinality(ChildrenOf(list, call.name)) = 1

(***************************************************************************)
(* C8.  Root binding is a placeholder only: in every reachable state, a    *)
(* non-root node that has the root among its parents has the root as its   *)
(* only parent.                                                            *)
(***************************************************************************)
C8_RootOnlyParent ==
  Idle =>
    \A n \in Keys(list) \ {rootName} :
      rootName \in ParentsOf(list, n) => ParentsOf(list, n) = {rootName}

\* A node was added with the root and another node declared as its parents,
\* and is stored with the other node as its only parent.
C8_Witness ==
  /\ IsAdd(call)
  /\ result = Ok
  /\ rootName \in Declared(call.parents)
  /\ Cardinality(Declared(call.parents)) = 2
  /\ ParentsOf(list, call.name) = Declared(call.parents) \ {rootName}

(***************************************************************************)
(* Vocabulary of C9: the rules of the validation, read off a call.         *)
(***************************************************************************)
\* No rule that precedes GraphLoop is broken.
NoRuleError == "none"

\* The array a call passes, as a sequence (empty when null or omitted: the
\* default of an omitted array is the node's current set, which breaks no
\* rule).
Passed(arr) == IF arr = Undefined THEN <<>> ELSE OrEmpty(arr)

\* The first position of arr whose element satisfies Bad (one exists).
FirstBad(arr, Bad(_)) ==
  CHOOSE i \in 1..Len(arr) : Bad(arr[i]) /\ \A j \in 1..(i - 1) : ~Bad(arr[j])

\* The error of the earliest broken rule when the rules are taken one at a
\* time in the order EmptyName, ZeroDuration, NegativeDuration, MissingParent,
\* SelfReference (own parent), MissingChild, SelfReference (own child),
\* RootReference, each rule looking at all the declared names.
EarliestRuleError(l, c) ==
  IF c.name = "" THEN EmptyName
  ELSE IF c.duration = 0 /\ c.name # rootName THEN ZeroDuration
  ELSE IF c.duration < 0 THEN NegativeDuration
  ELSE IF \E p \in Declared(c.parents) : ~Has(l, p) THEN MissingParent
  ELSE IF c.name \in Declared(c.parents) THEN SelfReference
  ELSE IF \E ch \in Declared(c.children) : ~Has(l, ch) THEN MissingChild
  ELSE IF c.name \in Declared(c.children) THEN SelfReference
  ELSE IF rootName \in Declared(c.children) THEN RootReference
  ELSE NoRuleError

\* The error met first when the parents, then the children, are taken one at
\* a time in array order and each is put to all of its rules before the next
\* one is looked at.
EarliestElementError(l, c) ==
  LET ps == Passed(c.parents)
      cs == Passed(c.children)
      BadParent(p) == ~Has(l, p) \/ p = c.name
      BadChild(ch) == ~Has(l, ch) \/ ch = c.name \/ ch = rootName
  IN IF c.name = "" THEN EmptyName
     ELSE IF c.duration = 0 /\ c.name # rootName THEN ZeroDuration
     ELSE IF c.duration < 0 THEN NegativeDuration
     ELSE IF \E i \in 1..Len(ps) : BadParent(ps[i])
          THEN IF ~Has(l, ps[FirstBad(ps, BadParent)]) THEN MissingParent
               ELSE SelfReference
     ELSE IF \E i \in 1..Len(cs) : BadChild(cs[i])
          THEN IF ~Has(l, cs[FirstBad(cs, BadChild)]) THEN MissingChild
               ELSE IF cs[FirstBad(cs, BadChild)] = c.name THEN SelfReference
               ELSE RootReference
     ELSE NoRuleError

(***************************************************************************)
(* C9.  Validation in addNode and updateNode is fail-fast by rule: when an *)
(* input violates several rules, the error reported is that of the         *)
(* earliest violated rule in the order EmptyName, ZeroDuration,            *)
(* NegativeDuration, MissingParent, SelfReference (own parent),            *)
(* MissingChild, SelfReference (own child), RootReference, GraphLoop.      *)
(* (The claim as stated: the rules are taken one at a time, each over all  *)
(* the declared names.)                                                    *)
(***************************************************************************)
C9_FailFastByRule ==
  [][ ( /\ IsAdd(call') \/ IsUpdate(call')
        /\ PassesPreconditions(list, call')
        /\ EarliestRuleError(list, call') # NoRuleError )
      => result' = EarliestRuleError(list, call') ]_vars

(***************************************************************************)
(* C9, amended.  Validation in addNode and updateNode is fail-fast in the  *)
(* order in which the checks are made: EmptyName, ZeroDuration,            *)
(* NegativeDuration (on the name and duration arguments), then the         *)
(* declared parents one at a time in array order (for each: MissingParent, *)
(* then SelfReference), then the declared children one at a time in array  *)
(* order (for each: MissingChild, then SelfReference, then RootReference), *)
(* and GraphLoop last.  The error reported is the first one met in that    *)
(* sequence; a call that meets none of them fails with GraphLoop or        *)
(* succeeds.                                                               *)
(***************************************************************************)
C9_FailFastByElement ==
  [][ ( /\ IsAdd(call') \/ IsUpdate(call')
        /\ PassesPreconditions(list, call') )
      => IF EarliestElementError(list, call') # NoRuleError
         THEN result' = EarliestElementError(list, call') /\ list' = list
         ELSE result' \in {GraphLoop, Ok} ]_vars

\* An updateNode named the node itself as its first parent and a name that is
\* not stored as its second, and was refused with SelfReference although
\* MissingParent comes first in the order of the rules.
C9_Witness ==
  /\ IsUpdate(call)
  /\ result = SelfReference
  /\ Has(list, call.name)
  /\ Len(Passed(call.parents)) = 2
  /\ call.parents[1] = call.name
  /\ ~Has(list, call.parents[2])

(***************************************************************************)
(* C10.  updateNode validates the new proposed state, so no node with an   *)
(* empty name is ever stored: an updateNode whose newName is the empty     *)
(* string fails with EmptyName (stated here of the calls that are valid in *)
(* everything but the new name), and in every reachable state every node   *)
(* name is non-empty.                                                      *)
(***************************************************************************)
C10_NoEmptyName ==
  /\ [](Idle => "" \notin Keys(list))
  /\ [][ ( /\ IsUpdate(call')
           /\ PassesPreconditions(list, call')
           /\ call'.newName = ""
           /\ DurationParentsValid(list, call')
           /\ ChildrenExistNotSelf(list, call')
           /\ rootName \notin Declared(call'.children) )
         => (result' = EmptyName /\ list' = list) ]_vars

(***************************************************************************)
(* C11.  An updateNode call that omits a field keeps that field's current  *)
(* value: after updateNode(name) with every optional argument omitted, on  *)
(* a stored node, the call succeeds and the node's name, duration, parent  *)
(* set, child set, color and start are equal to their values before the    *)
(* call.                                                                   *)
(***************************************************************************)
C11_OmittedFieldsKept ==
  [][ (IsUpdate(call') /\ call'.omitted /\ Has(list, call'.name))
      => LET n == call'.name
         IN /\ result' = Ok
            /\ Has(list', n)
            /\ Get(list', n).name = Get(list, n).name
            /\ Get(list', n).duration = Get(list, n).duration
            /\ ParentsOf(list', n) = ParentsOf(list, n)
            /\ ChildrenOf(list', n) = ChildrenOf(list, n)
            /\ Get(list', n).color = Get(list, n).color
            /\ Get(list', n).start = Get(list, n).start ]_vars

(***************************************************************************)
(* C12.  After a successful removeNode(X) with isUpdate = false, X is      *)
(* absent and every former child of X has every former non-root parent of  *)
(* X as a parent, with the mirrored child edge; a former child left with   *)
(* no other parent is bound to the root.                                   *)
(***************************************************************************)
C12_RemoveRelinks ==
  [][ (IsRemove(call') /\ result' = Ok)
      => LET X == call'.name
             formerParents == ParentsOf(list, X) \ {rootName}
             formerChildren == ChildrenOf(list, X)
         IN /\ ~Has(list', X)
            /\ \A c \in formerChildren :
                 /\ Has(list', c)
                 /\ \A p \in formerParents :
                      /\ p \in ParentsOf(list', c)
                      /\ c \in ChildrenOf(list', p)
                 /\ (formerParents = {} /\ ParentsOf(list, c) = {X})
                      => /\ ParentsOf(list', c) = {rootName}
                         /\ c \in ChildrenOf(list', rootName) ]_vars

\* A node that had a non-root parent and a child was removed, and the child is
\* now a child of that parent.
C12_Witness ==
  /\ IsRemove(call)
  /\ result = Ok
  /\ \E p \in Keys(list) \ {rootName} : ChildrenOf(list, p) # {}
  /\ Size(list) = MAX_NODES - 1

(***************************************************************************)
(* C13.  updateNode is a replace, not a patch: after a successful          *)
(* updateNode(X, newName, d, parents, children), the node newName has      *)
(* exactly the declared parents (the root alone when none are declared,    *)
(* the root dropped when a non-root parent is declared) and exactly the    *)
(* declared children; former parents and children of X that are not        *)
(* re-declared have no edge to it, former children are not re-linked to    *)
(* X's former parents, and a former child left with no parent is bound to  *)
(* the root.  (An omitted array declares the node's current set.)          *)
(***************************************************************************)
C13_UpdateReplaces ==
  [][ (IsUpdate(call') /\ result' = Ok)
      => LET X == call'.name
             N == call'.newName
             declaredParents ==
               Elems(OrEmpty(DefaultParents(list, X, call'.parents)))
             declaredChildren ==
               Elems(OrEmpty(DefaultChildren(list, X, call'.children)))
             newParents == IF declaredParents \ {rootName} = {} THEN {rootName}
                           ELSE declaredParents \ {rootName}
             formerParents == ParentsOf(list, X)
             formerChildren == ChildrenOf(list, X)
         IN /\ Has(list', N)
            /\ N # X => ~Has(list', X)
            /\ ParentsOf(list', N) = newParents
            /\ ChildrenOf(list', N) = declaredChildren
            /\ \A p \in formerParents \ newParents :
                 N \notin ChildrenOf(list', p)
            /\ \A c \in formerChildren \ declaredChildren :
                 /\ N \notin ParentsOf(list', c)
                 /\ \A p \in formerParents \ {rootName} :
                      p \notin ParentsOf(list, c) => p \notin ParentsOf(list', c)
                 /\ ParentsOf(list, c) = {X} => ParentsOf(list', c) = {rootName} ]_vars

\* An updateNode took a node with a non-root parent and a child of its own
\* and declared neither: the node is back under the root, childless, and its
\* former child is a child of the root and not of the former parent.
C13_Witness ==
  /\ IsUpdate(call)
  /\ result = Ok
  /\ call.parents = Null
  /\ call.children = Null
  /\ ParentsOf(list, call.newName) = {rootName}
  /\ ChildrenOf(list, call.newName) = {}
  /\ Size(list) = MAX_NODES
  /\ Cardinality(ChildrenOf(list, rootName)) = 2
  /\ \E p \in Keys(list) \ {rootName, call.newName} : ParentsOf(list, p) = {rootName}
  /\ \E p \in Keys(list) \ {rootName} : ChildrenOf(list, p) # {}

(***************************************************************************)
(* C14.  Round trip: on any graph that does not contain "A" and is below   *)
(* capacity, addNode("A", 3) with no parents or children succeeds, after   *)
(* which the stored node "A" has duration 3, parent set exactly {root} and *)
(* no children, and the root's child set contains "A".                     *)
(***************************************************************************)
C14_AddRoundTrip ==
  [][ ( /\ IsAdd(call')
        /\ call'.name = "A"
        /\ call'.duration = 3
        /\ call'.parents = Null
        /\ call'.children = Null
        /\ ~Has(list, "A")
        /\ Size(list) < MAX_NODES )
      => /\ result' = Ok
         /\ Has(list', "A")
         /\ Get(list', "A").name = "A"
         /\ Get(list', "A").duration = 3
         /\ ParentsOf(list', "A") = {rootName}
         /\ ChildrenOf(list', "A") = {}
         /\ "A" \in ChildrenOf(list', rootName) ]_vars

\* addNode("A", 3) has just succeeded on a graph that held two other tasks,
\* one the child of the other.
C14_Witness ==
  /\ IsAdd(call)
  /\ call.name = "A"
  /\ call.duration = 3
  /\ call.parents = Null
  /\ result = Ok
  /\ Size(list) = MAX_NODES
  /\ \E p \in Keys(list) \ {rootName, "A"} : ChildrenOf(list, p) # {}

(***************************************************************************)
(* C15.  Precondition errors take precedence in a fixed order and change   *)
(* nothing: updateNode reports RootChange if name is the root, else        *)
(* EntryDuplicate if newName is a different existing node, else            *)
(* MissingEntry if name is absent, all before common validation (so        *)
(* whatever the other arguments); removeNode reports RootRemoval if name   *)
(* is the root, else MissingEntry if absent; in each case the graph is     *)
(* unchanged.                                                              *)
(***************************************************************************)
C15_PreconditionOrder ==
  [][ /\ IsUpdate(call') =>
           LET expected ==
                 IF call'.name = rootName THEN RootChange
                 ELSE IF Has(list, call'.newName) /\ call'.newName # call'.name
                      THEN EntryDuplicate
                 ELSE IF ~Has(list, call'.name) THEN MissingEntry
                 ELSE Ok
           IN IF expected # Ok THEN result' = expected /\ list' = list
              ELSE result' \notin {RootChange, EntryDuplicate, MissingEntry}
      /\ IsRemove(call') =>
           LET expected ==
                 IF call'.name = rootName THEN RootRemoval
                 ELSE IF ~Has(list, call'.name) THEN MissingEntry
                 ELSE Ok
           IN IF expected # Ok THEN result' = expected /\ list' = list
              ELSE result' = Ok ]_vars

\* An updateNode named a node that is not stored, gave it the name of a node
\* that is, and an invalid duration: it was refused with EntryDuplicate.
C15_Witness ==
  /\ IsUpdate(call)
  /\ result = EntryDuplicate
  /\ ~Has(list, call.name)
  /\ call.name # rootName
  /\ call.duration <= 0

(***************************************************************************)
(* Vocabulary of the schedule.                                             *)
(***************************************************************************)
\* The keys of a render map.
RenderKeys(renderMap) == {renderMap[i].name : i \in 1..Len(renderMap)}

\* The schedule of a graph built from its root, as generateRenderMap does.
Schedule(l) == createRenderMap(l, rootName, startDate, rootName).renderMap

(***************************************************************************)
(* C16.  For every graph reachable through addNode, updateNode and         *)
(* removeNode, createRenderMap started from the root returns a mapping     *)
(* whose key set is exactly the set of all non-root nodes of the graph.    *)
(***************************************************************************)
C16_EveryTaskScheduled ==
  Idle => RenderKeys(Schedule(list)) = Keys(list) \ {rootName}

\* The latest of the ends the elements of the nodes of `names` have.
LatestEnd(renderMap, names) ==
  CHOOSE t \in {RenderGet(renderMap, p).end : p \in names} :
    \A p \in names : RenderGet(renderMap, p).end <= t

\* The start an element gets from a computed start c and the node's hint.
StartFrom(c, hint) == IF hint # NoDate /\ hint >= c THEN hint ELSE c

(***************************************************************************)
(* C17.  In the schedule built from the root, a node with several parents  *)
(* gets a computed start equal to the latest end date among all of its     *)
(* parents, whatever the order in which its parents are traversed and      *)
(* whatever the iteration order of its parent set: every parent has an     *)
(* element, and the node's start is that latest end, or its own start hint *)
(* when the hint is not before it.                                         *)
(***************************************************************************)
C17_JoinStartsAtLatestEnd ==
  IsRender(call) =>
    \A n \in RenderKeys(result) :
      Cardinality(ParentsOf(list, n)) > 1
        => /\ ParentsOf(list, n) \subseteq RenderKeys(result)
           /\ RenderGet(result, n).start =
                StartFrom(LatestEnd(result, ParentsOf(list, n)),
                          Get(list, n).start)

\* A scheduled node without a hint has two parents; the first one of its
\* parent set ends later than the second, and the node starts at the first
\* one's end.
C17_Witness ==
  /\ IsRender(call)
  /\ \E n \in RenderKeys(result) :
       /\ Len(OrEmpty(Get(list, n).parents)) = 2
       /\ Get(list, n).start = NoDate
       /\ RenderGet(result, Get(list, n).parents[1]).end
            > RenderGet(result, Get(list, n).parents[2]).end
       /\ RenderGet(result, n).start
            = RenderGet(result, Get(list, n).parents[1]).end

\* The computed start of a scheduled node: the project start for a child of
\* the root, else the latest end among its parents.
ComputedStart(l, renderMap, n) ==
  IF rootName \in ParentsOf(l, n) THEN startDate
  ELSE LatestEnd(renderMap, ParentsOf(l, n))

(***************************************************************************)
(* C18.  Start-hint handling in createRenderMap: for a node with a user    *)
(* start hint h and computed start c, if h >= c the element's start is h   *)
(* and overlappingStart is null; if h < c the element's start is c and     *)
(* overlappingStart equals h; a node without a hint has start c and        *)
(* overlappingStart null.                                                  *)
(***************************************************************************)
C18_StartHint ==
  IsRender(call) =>
    \A n \in RenderKeys(result) :
      /\ ParentsOf(list, n) \subseteq RenderKeys(result) \cup {rootName}
      /\ LET h == Get(list, n).start
             c == ComputedStart(list, result, n)
             element == RenderGet(result, n)
         IN IF h = NoDate
            THEN element.start = c /\ element.overlappingStart = NoDate
            ELSE IF h >= c
            THEN element.start = h /\ element.overlappingStart = NoDate
            ELSE element.start = c /\ element.overlappingStart = h

\* A scheduled node has a start hint earlier than the end of its parent: its
\* element starts at that end and reports the hint as overlapping.
C18_Witness ==
  /\ IsRender(call)
  /\ \E n \in RenderKeys(result) :
       /\ Get(list, n).start # NoDate
       /\ rootName \notin ParentsOf(list, n)
       /\ RenderGet(result, n).overlappingStart = Get(list, n).start
       /\ RenderGet(result, n).start > Get(list, n).start

(***************************************************************************)
(* C19.  Linear chain: in the schedule built from the root, a node without *)
(* a start hint whose only parent is a non-root node P starts exactly at   *)
(* P's end (a child of the root starts at the project start), and every    *)
(* element's end equals its start plus its duration in whole days.         *)
(***************************************************************************)
C19_LinearChain ==
  IsRender(call) =>
    \A n \in RenderKeys(result) :
      /\ RenderGet(result, n).end
           = RenderGet(result, n).start + Get(list, n).duration
      /\ (Get(list, n).start = NoDate /\ ParentsOf(list, n) = {rootName})
           => RenderGet(result, n).start = startDate
      /\ \A P \in Keys(list) \ {rootName} :
           (Get(list, n).start = NoDate /\ ParentsOf(list, n) = {P})
             => /\ RenderHas(result, P)
                /\ RenderGet(result, n).start = RenderGet(result, P).end

\* The scenario of the claim: A (duration 5, start 2026-01-01) and B (parent
\* A, duration 3, no hint); B starts on 2026-01-06 and ends on 2026-01-09.
C19_Witness ==
  /\ IsRender(call)
  /\ Has(list, "A") /\ Has(list, "B")
  /\ Get(list, "A").duration = 5 /\ Get(list, "A").start = 0
  /\ Get(list, "B").duration = 3 /\ Get(list, "B").start = NoDate
  /\ ParentsOf(list, "B") = {"A"}
  /\ RenderHas(result, "A") /\ RenderHas(result, "B")
  /\ RenderGet(result, "A").start = 0
  /\ RenderGet(result, "B").start = 5
  /\ RenderGet(result, "B").end = 8

Occurs(p, t) ==
  \E i \in 0..(Len(t) - Len(p)) : SubSeq(t, i + 1, i + Len(p)) = p

\* p occurs in t when letter case is ignored.
OccursIgnoringCase(p, t) == Occurs(toLowerCase(p), toLowerCase(t))

\* The length of the longest prefix of p that occurs in t, case ignored.
LongestPrefixIn(p, t) ==
  CHOOSE k \in 0..Len(p) :
    /\ OccursIgnoringCase(SubSeq(p, 1, k), t)
    /\ \A j \in (k + 1)..Len(p) : ~OccursIgnoringCase(SubSeq(p, 1, j), t)

(***************************************************************************)
(* C21.  For a non-empty pattern no longer than the text,                  *)
(* relevance(pattern, text) (getMaxLsp) equals the pattern length if and   *)
(* only if the pattern occurs as a contiguous substring of the text when   *)
(* letter case is ignored.                                                 *)
(***************************************************************************)
C21_RelevantIffSubstring ==
  ( /\ IsSearch(call)
    /\ Len(call.pattern) > 0
    /\ Len(call.pattern) <= Len(call.text) )
  => (result = Len(call.pattern) <=> OccursIgnoringCase(call.pattern, call.text))

(***************************************************************************)
(* C22.  relevance(pattern, text) returns 0 when either input is empty or  *)
(* the pattern is longer than the text; otherwise it returns the length of *)
(* the longest prefix of the pattern that occurs as a contiguous substring *)
(* of the text (case ignored), a value between 0 and the pattern length.   *)
(***************************************************************************)
C22_LongestPrefix ==
  IsSearch(call) =>
    IF Len(call.pattern) = 0 \/ Len(call.text) = 0
         \/ Len(call.pattern) > Len(call.text)
    THEN result = 0
    ELSE /\ result = LongestPrefixIn(call.pattern, call.text)
         /\ 0 <= result /\ result <= Len(call.pattern)

(***************************************************************************)
(* Vocabulary of the turns of createRenderMap.                             *)
(***************************************************************************)
\* The turns the loop takes on the collection l from the node `initial`.
TurnsFrom(l, initial) == createRenderMap(l, rootName, startDate, initial).turns

\* The place of the element of `name` in the insertion order of the map.
PositionIn(renderMap, name) ==
  CHOOSE i \in 1..Len(renderMap) : renderMap[i].name = name

\* The element has no children: no child set, or an empty one.
NoChildren(element) == element.children = Null \/ element.children = <<>>

\* batch[i] comes before batch[j], in the batch (the order of the pushes) and
\* among the keys of the map.
OrderedBefore(renderMap, batch, i, j) ==
  /\ i < j
  /\ PositionIn(renderMap, batch[i].name) < PositionIn(renderMap, batch[j].name)

\* In the batch of every turn, any two elements x, y with Pair(x, y) are
\* ordered x before y.
BatchesOrdered(turns, renderMap, Pair(_, _)) ==
  \A t \in 1..Len(turns) :
    \A i, j \in 1..Len(turns[t].batch) :
      (i # j /\ Pair(turns[t].batch[i], turns[t].batch[j]))
        => OrderedBefore(renderMap, turns[t].batch, i, j)

\* x has no children and y has some.
LeafAndParent(x, y) == NoChildren(x) /\ ~NoChildren(y)

\* x has children and y has none.
ParentAndLeaf(x, y) == ~NoChildren(x) /\ NoChildren(y)

\* x has no child set and y has one.
NullAndSet(x, y) == x.children = Null /\ y.children # Null

(***************************************************************************)
(* C23 as stated.  Among the children made ready in one pop of             *)
(* createRenderMap, nodes with no children are ordered after nodes that    *)
(* have children, both in the returned mapping's insertion order and in    *)
(* the order they are considered for pushing.                              *)
(***************************************************************************)
C23_LeavesLast ==
  Idle => BatchesOrdered(TurnsFrom(list, rootName), Schedule(list), ParentAndLeaf)

(***************************************************************************)
(* C23 as the code has it.  Among the children made ready in one pop of    *)
(* createRenderMap, the nodes whose child set is null are ordered before   *)
(* the nodes whose child set is not null, both in the insertion order of   *)
(* the map returned and in the order they are considered for pushing.      *)
(***************************************************************************)
C23_LeavesFirst ==
  Idle => BatchesOrdered(TurnsFrom(list, rootName), Schedule(list), NullAndSet)

\* The root has a child with children listed before a child without a child
\* set: the sort has to move the second in front of the first.
C23_Witness ==
  /\ Idle
  /\ \E i, j \in 1..Len(OrEmpty(Get(list, rootName).children)) :
       /\ i < j
       /\ Get(list, Get(list, rootName).children[i]).children # Null
       /\ Get(list, Get(list, rootName).children[i]).children # <<>>
       /\ Get(list, Get(list, rootName).children[j]).children = Null

(***************************************************************************)
(* C24.  Among the children made ready in one pop of createRenderMap that  *)
(* have the same leaf/non-leaf status, the one with the earlier end date   *)
(* is ordered first, for any pair of end dates (including ends in          *)
(* different months).                                                      *)
(***************************************************************************)
\* x and y have the same status and x ends earlier than y.
EndsEarlier(x, y) ==
  /\ (x.children = Null) = (y.children = Null)
  /\ x.end < y.end

C24_EarlierEndFirst ==
  IsRender(call) => BatchesOrdered(TurnsFrom(list, rootName), result, EndsEarlier)

(***************************************************************************)
(* C25.  createRenderMap terminates on every graph reachable through       *)
(* addNode, updateNode and removeNode: each node is pushed on the          *)
(* traversal stack at most once and recorded in the result at most once,   *)
(* so the stack eventually empties.  (A name pushed is popped in a turn of *)
(* its own, so the loop takes at most as many turns as there are nodes.)   *)
(***************************************************************************)
\* The places of the elements recorded: the turn and the index in its batch.
Recordings(turns) ==
  UNION {{<<t, i>> : i \in 1..Len(turns[t].batch)} : t \in 1..Len(turns)}

\* No name is popped in two turns and none is recorded at two places.
EachNodeOnce(turns) ==
  /\ \A t, u \in 1..Len(turns) : t # u => turns[t].popped # turns[u].popped
  /\ \A p, q \in Recordings(turns) :
       p # q => turns[p[1]].batch[p[2]].name # turns[q[1]].batch[q[2]].name

C25_EachNodeOnce ==
  Idle => \A initial \in Keys(list) :
            /\ EachNodeOnce(TurnsFrom(list, initial))
            /\ Len(TurnsFrom(list, initial)) <= Size(list)

\* A node with two parents is scheduled from the root, after both parents
\* were popped.
C25_Witness ==
  /\ Idle
  /\ \E n \in RenderKeys(Schedule(list)) :
       /\ Len(OrEmpty(Get(list, n).parents)) = 2
       /\ Len(TurnsFrom(list, rootName)) = 3

(***************************************************************************)
(* C26.  For any startNode (not only the root), createRenderMap(nodes,     *)
(* rootName, projectStart, startNode) returns a schedule element for every *)
(* node reachable from startNode through child edges, including            *)
(* descendants that also have a parent not reachable from startNode.       *)
(***************************************************************************)
C26_DescendantsScheduled ==
  (IsRenderFrom(call) /\ Has(list, call.name))
    => Descendants(list, call.name) \subseteq RenderKeys(result)

(***************************************************************************)
(* C27.  When a ready child is expanded from a non-root node, its computed *)
(* start is the maximum of the end dates of those of its parents already   *)
(* present in the result mapping, with the project start as a floor        *)
(* contributed by parents not yet scheduled; the result does not depend on *)
(* the iteration order of the child's parent set.                          *)
(***************************************************************************)
\* The latest among the ends of the parents that have an element in
\* renderMap and, when some parent has none, the project start.
LatestPresentEnd(renderMap, parents) ==
  LET present == {p \in parents : RenderHas(renderMap, p)}
      dates == {RenderGet(renderMap, p).end : p \in present}
                 \cup (IF present # parents THEN {startDate} ELSE {})
  IN CHOOSE m \in dates : \A d \in dates : d <= m

C27_StartIsLatestPresentEnd ==
  ((IsRender(call) \/ IsRenderFrom(call)) /\ Has(list, call.name))
    => \A t \in 1..Len(TurnsFrom(list, call.name)) :
         LET turn == TurnsFrom(list, call.name)[t]
         IN turn.popped # rootName
              => \A i \in 1..Len(turn.batch) :
                   turn.batch[i].start
                     = StartFrom(LatestPresentEnd(turn.before,
                                                  Elems(OrEmpty(turn.batch[i].parents))),
                                 Get(list, turn.batch[i].name).start)

(***************************************************************************)
(* C28.  addNode and updateNode fail with GraphLoop exactly when the graph *)
(* that the requested change would produce contains a directed cycle: no   *)
(* cycle-creating change is accepted, and no change whose resulting graph  *)
(* is acyclic is rejected with GraphLoop (including an updateNode that     *)
(* reverses or replaces the node's existing edges).                        *)
(***************************************************************************)
\* The graph the call c would produce on l were it carried out: the entry of
\* addNode inserted, for updateNode after the removal of the old entry.
ProposedGraph(l, c) ==
  IF IsAdd(c)
  THEN Insert(l, c.name, c.duration, c.parents, c.children, Color1, NoDate)
  ELSE LET parents == DefaultParents(l, c.name, c.parents)
           children == DefaultChildren(l, c.name, c.children)
           ps == IF parents # Null /\ Len(parents) = 0 THEN Null ELSE parents
           cs == IF children # Null /\ Len(children) = 0 THEN Null ELSE children
       IN Insert(removeNode(l, c.name, TRUE).list, c.newName, c.duration,
                 ps, cs, Color1, NoDate)

C28_GraphLoopIffCycle ==
  [][ (IsAdd(call') \/ IsUpdate(call'))
        => /\ result' = Ok => Acyclic(list')
           /\ result' = GraphLoop => ~Acyclic(ProposedGraph(list, call')) ]_vars

(***************************************************************************)
(* C29.  updateNode is atomic in single-threaded use: once its checks and  *)
(* validation pass, the internal removeNode and re-insert never fail, so   *)
(* an updateNode that throws leaves the graph unchanged and a successful   *)
(* one leaves the node count unchanged (it also succeeds when the graph is *)
(* at capacity).                                                           *)
(***************************************************************************)
C29_UpdateAtomic ==
  [][ IsUpdate(call')
        => /\ result' \notin {NodeLimitExceeded, RootRemoval}
           /\ result' = EntryDuplicate
                => (Has(list, call'.newName) /\ call'.newName # call'.name)
           /\ result' = MissingEntry => ~Has(list, call'.name)
           /\ result' # Ok => list' = list
           /\ result' = Ok => Size(list') = Size(list) ]_vars

\* An update went through on a graph that is at capacity.
C29_Witness ==
  /\ IsUpdate(call)
  /\ result = Ok
  /\ Size(list) = MAX_NODES

(***************************************************************************)
(* C30.  In the schedule built from the root of any reachable graph, every *)
(* element's start is on or after the project start and on or after the    *)
(* end of each of its non-root parents (no task starts before a            *)
(* predecessor finishes).                                                  *)
(***************************************************************************)
C30_StartsAfterPredecessors ==
  IsRender(call)
    => \A i \in 1..Len(result) :
         /\ result[i].start >= startDate
         /\ \A p \in Elems(OrEmpty(result[i].parents)) \ {rootName} :
              /\ RenderHas(result, p)
              /\ result[i].start >= RenderGet(result, p).end

\* The schedule has a task hinted before the start of the project and a task
\* with two parents that end on different days.
C30_Witness ==
  /\ IsRender(call)
  /\ \E i \in 1..Len(result) :
       /\ result[i].overlappingStart # NoDate
       /\ result[i].overlappingStart < startDate
  /\ \E j \in 1..Len(result) :
       /\ Len(OrEmpty(result[j].parents)) = 2
       /\ RenderGet(result, result[j].parents[1]).end
            # RenderGet(result, result[j].parents[2]).end

(***************************************************************************)
(* C31.  The insertion order of the mapping returned by createRenderMap    *)
(* from the root is a topological order: every element is recorded after   *)
(* all of its non-root parents have been recorded.                         *)
(***************************************************************************)
\* Every non-root parent of every element of the map has an element at an
\* earlier place.
Topological(renderMap) ==
  \A i \in 1..Len(renderMap) :
    \A p \in Elems(OrEmpty(renderMap[i].parents)) \ {rootName} :
      /\ RenderHas(renderMap, p)
      /\ PositionIn(renderMap, p) < i

C31_TopologicalOrder == Idle => Topological(Schedule(list))

\* Three tasks are scheduled, one of them with two parents of which one is a
\* parent of the other.
C31_Witness ==
  /\ Idle
  /\ Len(Schedule(list)) = 3
  /\ \E n \in RenderKeys(Schedule(list)) :
       /\ Len(OrEmpty(Get(list, n).parents)) = 2
       /\ \E p, q \in ParentsOf(list, n) : p \in ParentsOf(list, q)

(***************************************************************************)
(* C32.  Structural operations are local: a successful addNode, updateNode *)
(* or removeNode changes only the target node, the root, and nodes that    *)
(* are the target's old or newly declared parents or children; every other *)
(* node keeps its parent set and child set, and no operation ever changes  *)
(* the duration, color or start of a node other than the target.           *)
(***************************************************************************)
\* The parents and children the node n has in l (none when l has no n).
Neighbours(l, n) ==
  IF Has(l, n) THEN ParentsOf(l, n) \cup ChildrenOf(l, n) ELSE {}

\* The nodes the call c may change on the collection l: the target under its
\* old and new name, the root, the target's parents and children in l and
\* the parents and children the call declares.
Touched(l, c) ==
  {c.name, c.newName, rootName} \cup Neighbours(l, c.name)
    \cup Declared(c.parents) \cup Declared(c.children)

C32_Local ==
  [][ ((IsAdd(call') \/ IsUpdate(call') \/ IsRemove(call')) /\ result' = Ok)
        => /\ Keys(list) \ {call'.name} \subseteq Keys(list')
           /\ Keys(list') \ {call'.newName} \subseteq Keys(list)
           /\ \A n \in (Keys(list) \cap Keys(list')) \ Touched(list, call') :
                /\ Get(list', n).parents = Get(list, n).parents
                /\ Get(list', n).children = Get(list, n).children
           /\ \A n \in (Keys(list) \cap Keys(list')) \ {call'.name, call'.newName} :
                /\ Get(list', n).duration = Get(list, n).duration
                /\ Get(list', n).color = Get(list, n).color
                /\ Get(list', n).start = Get(list, n).start ]_vars

\* A node was added under the root with no parents and no children declared,
\* beside two other tasks of which one is the parent of the other.
C32_Witness ==
  /\ IsAdd(call)
  /\ result = Ok
  /\ call.parents = Null
  /\ Declared(call.children) = {}
  /\ \E a, b \in Keys(list) \ {rootName, call.name} : b \in ChildrenOf(list, a)

C34_RelevantNames ==
  IsFind(call) =>
    /\ ~result.thrown
    /\ result.returned
         = {n \in Keys(list) \ {rootName} :
              getMaxLsp(call.pattern, CodeUnits(n)) = Len(call.pattern)}

(***************************************************************************)
(* C34 as the code has it.  getRelevantTaskNameList(pattern, graph) first  *)
(* validates the pattern (blanks at both ends removed; an error is thrown  *)
(* when what is left is longer than maxLength; then HTML characters are    *)
(* escaped and control characters removed).  When it does not throw it     *)
(* returns exactly the names of the non-root nodes for which               *)
(* relevance(p, name) equals the length of p, p being the validated        *)
(* pattern; the root name is never returned, for any pattern including the *)
(* empty one.                                                              *)
(***************************************************************************)
C34_RelevantToValidated ==
  IsFind(call) =>
    /\ result.thrown <=> Len(trim(call.pattern)) > maxLength
    /\ rootName \notin result.returned
    /\ ~result.thrown =>
         result.returned
           = {n \in Keys(list) \ {rootName} :
                getMaxLsp(validateInput(call.pattern).value, CodeUnits(n))
                  = Len(validateInput(call.pattern).value)}

\* The pattern "r" was searched in a graph of three tasks: the root name is
\* the only name it occurs in, and nothing was returned.
C34_Witness ==
  /\ IsFind(call)
  /\ call.pattern = <<"r">>
  /\ Size(list) = MAX_NODES
  /\ ~result.thrown
  /\ result.returned = {}
  /\ getMaxLsp(call.pattern, CodeUnits(rootName)) = Len(call.pattern)

====
